---- MODULE Spec2Model ----
(***************************************************************************)
(* Model of src/resources/crds/actor.rs: the Actor custom resource.        *)
(*                                                                         *)
(*   ActorSpec    the declarative description, with its derivations        *)
(*                environments, container_ports, service_ports and         *)
(*                has_dockerfile;                                          *)
(*   ActorStatus  the list of conditions, with its four phase queries;     *)
(*   ActorState   the four lifecycle phases and the condition              *)
(*                constructors.                                            *)
(*                                                                         *)
(* Representation.  An Option<T> is a sequence of length 0 (None) or 1     *)
(* (Some(x)).  A String that the code converts or compares (a condition's  *)
(* type_, status and reason) is a sequence of one-character strings, so    *)
(* that to_string and to_case(Case::Pascal) are computed character by      *)
(* character; every other String (message, protocol, dockerfile, ...) is   *)
(* only stored or cloned by the code and is an opaque TLA+ string.         *)
(* Of ActorSpec the record spec keeps environments, services and build,    *)
(* the fields these derivations read.  The condition list is private to    *)
(* ActorStatus and no method of the file writes it: the writes (append,    *)
(* replace by type, remove by type) are those of the controller.           *)
(***************************************************************************)
EXTENDS Integers, Sequences, FiniteSets, TLC

VARIABLES
    spec,        \* the ActorSpec of the resource (the fields the derivations read)
    conditions,  \* ActorStatus.conditions
    now,         \* the clock Utc::now() reads
    out          \* the last call of a query or derivation and what it returned

vars == <<spec, conditions, now, out>>

(***************************************************************************)
(* Option<T>                                                               *)
(***************************************************************************)
None == <<>>

Some(x) == <<x>>

is_some(o) == Len(o) = 1

unwrap(o) == o[1]

\* Option<bool>::unwrap_or_default(): the value, or bool::default() = false
unwrap_or_default(o) == IF is_some(o) THEN unwrap(o) ELSE FALSE

(***************************************************************************)
(* Characters and convert_case's Pascal case                               *)
(***************************************************************************)
LowerChars == <<"a","b","c","d","e","f","g","h","i","j","k","l","m",
                "n","o","p","q","r","s","t","u","v","w","x","y","z">>

UpperChars == <<"A","B","C","D","E","F","G","H","I","J","K","L","M",
                "N","O","P","Q","R","S","T","U","V","W","X","Y","Z">>

Delimiters == {"_", "-", " "}

IndexIn(chars, c) == CHOOSE i \in 1..Len(chars) : chars[i] = c

IsLower(c) == \E i \in 1..Len(LowerChars) : LowerChars[i] = c

IsUpper(c) == \E i \in 1..Len(UpperChars) : UpperChars[i] = c

ToUpper(c) == IF IsLower(c) THEN UpperChars[IndexIn(LowerChars, c)] ELSE c

ToLower(c) == IF IsUpper(c) THEN LowerChars[IndexIn(UpperChars, c)] ELSE c

\* A word boundary between s[i] and s[i+1] that consumes no character:
\* lower-to-upper ("autoSync"), and the end of an acronym ("HTTPServer").
\* The boundaries next to a digit are left out: no string here holds one.
LetterBoundary(s, i) ==
    /\ i < Len(s)
    /\ \/ IsLower(s[i]) /\ IsUpper(s[i+1])
       \/ /\ IsUpper(s[i]) /\ IsUpper(s[i+1])
          /\ i + 2 <= Len(s)
          /\ IsLower(s[i+2])

RECURSIVE PascalFrom(_, _, _)
\* s from its i-th character on; start: the character opens a word.  A
\* delimiter is dropped and opens a word; a word is written capitalised.
PascalFrom(s, i, start) ==
    IF i > Len(s) THEN <<>>
    ELSE IF s[i] \in Delimiters THEN PascalFrom(s, i + 1, TRUE)
    ELSE <<IF start THEN ToUpper(s[i]) ELSE ToLower(s[i])>>
            \o PascalFrom(s, i + 1, LetterBoundary(s, i))

\* bool::to_string()
bool_to_string(b) == IF b THEN <<"t","r","u","e">> ELSE <<"f","a","l","s","e">>

\* the reason given to running() and failed()
Reasons == { <<"a","u","t","o","_","s","y","n","c">> }

\* the strings the program converts, each converted once
PascalTable ==
    [s \in Reasons \cup {bool_to_string(b) : b \in BOOLEAN}
               \cup { <<"C","r","e","a","t","e","d">>, <<"B","u","i","l","d">> }
        |-> PascalFrom(s, 1, TRUE)]

\* str.to_case(Case::Pascal)
to_case_Pascal(s) ==
    IF s \in DOMAIN PascalTable THEN PascalTable[s] ELSE PascalFrom(s, 1, TRUE)

(***************************************************************************)
(* ActorState                                                              *)
(***************************************************************************)
ActorStates == {"Pending", "Building", "Running", "Failed"}

\* impl Display for ActorState
ActorState_to_string(s) ==
    CASE s = "Pending"  -> <<"P","e","n","d","i","n","g">>
      [] s = "Building" -> <<"B","u","i","l","d","i","n","g">>
      [] s = "Running"  -> <<"R","u","n","n","i","n","g">>
      [] s = "Failed"   -> <<"F","a","i","l","e","d">>

\* ActorState::create storing status.to_string() as it is, not in Pascal case
ActorState_create_RawStatus(state, status, reason, message, t) ==
    [ type_                |-> ActorState_to_string(state),
      status               |-> bool_to_string(status),
      last_transition_time |-> t,
      reason               |-> to_case_Pascal(reason),
      observed_generation  |-> None,
      message              |-> IF is_some(message) THEN unwrap(message) ELSE "" ]

\* ActorState::create writing "True" whatever the boolean is
ActorState_create_AlwaysTrue(state, status, reason, message, t) ==
    [ type_                |-> ActorState_to_string(state),
      status               |-> to_case_Pascal(bool_to_string(TRUE)),
      last_transition_time |-> t,
      reason               |-> to_case_Pascal(reason),
      observed_generation  |-> None,
      message              |-> IF is_some(message) THEN unwrap(message) ELSE "" ]

\* ActorState::create; t is what Utc::now() returns
ActorState_create(state, status, reason, message, t) ==
    [ type_                |-> ActorState_to_string(state),
      status               |-> to_case_Pascal(bool_to_string(status)),
      last_transition_time |-> t,
      reason               |-> to_case_Pascal(reason),
      observed_generation  |-> None,
      message              |-> IF is_some(message) THEN unwrap(message) ELSE "" ]

ActorState_pending(t) ==
    ActorState_create("Pending", TRUE, <<"C","r","e","a","t","e","d">>, None, t)

ActorState_building(t) ==
    ActorState_create("Building", TRUE, <<"B","u","i","l","d">>, None, t)

ActorState_running(status, reason, message, t) ==
    ActorState_create("Running", status, reason, message, t)

ActorState_failed(status, reason, message, t) ==
    ActorState_create("Failed", status, reason, message, t)

(***************************************************************************)
(* ActorStatus                                                             *)
(***************************************************************************)
\* ActorStatus::state matching the type alone
ActorStatus_state_AnyStatus(conds, s, status) ==
    \E i \in 1..Len(conds) : conds[i].type_ = ActorState_to_string(s)

\* ActorStatus::state matching the status alone
ActorStatus_state_AnyType(conds, s, status) ==
    \E i \in 1..Len(conds) : conds[i].status = to_case_Pascal(bool_to_string(status))

\* ActorStatus::state comparing the status with status.to_string() as it is
ActorStatus_state_RawStatus(conds, s, status) ==
    \E i \in 1..Len(conds) :
        /\ conds[i].type_ = ActorState_to_string(s)
        /\ conds[i].status = bool_to_string(status)

\* ActorStatus::state deciding by the last condition of the type
ActorStatus_state_LastWins(conds, s, status) ==
    \E i \in 1..Len(conds) :
        /\ conds[i].type_ = ActorState_to_string(s)
        /\ conds[i].status = to_case_Pascal(bool_to_string(status))
        /\ \A j \in (i + 1)..Len(conds) : conds[j].type_ # conds[i].type_

\* ActorStatus::state
ActorStatus_state(conds, s, status) ==
    \E i \in 1..Len(conds) :
        /\ conds[i].type_ = ActorState_to_string(s)
        /\ conds[i].status = to_case_Pascal(bool_to_string(status))

ActorStatus_pending(conds) == ActorStatus_state(conds, "Pending", TRUE)

ActorStatus_building(conds) == ActorStatus_state(conds, "Building", TRUE)

ActorStatus_running(conds) == ActorStatus_state(conds, "Running", TRUE)

ActorStatus_failed(conds) == ActorStatus_state(conds, "Failed", TRUE)

\* the query of each phase
Query(conds, s) ==
    CASE s = "Pending"  -> ActorStatus_pending(conds)
      [] s = "Building" -> ActorStatus_building(conds)
      [] s = "Running"  -> ActorStatus_running(conds)
      [] s = "Failed"   -> ActorStatus_failed(conds)

(***************************************************************************)
(* ActorSpec and its derivations                                           *)
(***************************************************************************)
\* crate::resources::to_env_var, which is not in this file: one EnvVar per
\* entry of the map; order lists the keys in the order the HashMap yields
\* them, which is not defined.
to_env_var(envs, order) ==
    [i \in 1..Len(order) |->
        [name |-> order[i], value |-> Some(envs[order[i]]), value_from |-> None]]

\* the orders in which a HashMap with this key set can be iterated
KeyOrders(keys) ==
    {o \in [1..Cardinality(keys) -> keys] : \A k \in keys : \E i \in DOMAIN o : o[i] = k}

\* ActorSpec::environments returning an empty list for an absent map
ActorSpec_environments_EmptyList(s, order) ==
    IF is_some(s.environments)
    THEN Some(to_env_var(unwrap(s.environments), order))
    ELSE Some(<<>>)

\* ActorSpec::environments
ActorSpec_environments(s, order) ==
    IF is_some(s.environments)
    THEN Some(to_env_var(unwrap(s.environments), order))
    ELSE None

\* the closure of container_ports: ContainerPort { container_port, protocol, ..default }
ContainerPortOf(p) ==
    [container_port |-> p.port, protocol |-> p.protocol,
     host_ip |-> None, host_port |-> None, name |-> None]

\* the closure of service_ports: ServicePort { port, protocol, ..default }
ServicePortOf(p) ==
    [port |-> p.port, protocol |-> p.protocol,
     app_protocol |-> None, name |-> None, node_port |-> None, target_port |-> None]

\* ports.iter().map(|p| ContainerPort { .. }).collect()
ContainerPortsOf(ps) == [k \in 1..Len(ps) |-> ContainerPortOf(ps[k])]

\* ports.iter().map(|p| ServicePort { .. }).collect()
ServicePortsOf(ps) == [k \in 1..Len(ps) |-> ServicePortOf(ps[k])]

\* the filter of service_ports taking every port whose expose is set
IsExposed_IsSome(p) == is_some(p.expose)

\* the filter of service_ports
IsExposed(p) == unwrap_or_default(p.expose)

RECURSIVE ContainerPortsLoop_Exposed(_, _, _)
\* the loop of container_ports keeping the exposed ports only
ContainerPortsLoop_Exposed(services, i, ports) ==
    IF i > Len(services) THEN ports
    ELSE LET items == ContainerPortsOf(
                             SelectSeq(services[i].ports, LAMBDA p : unwrap_or_default(p.expose)))
         IN  ContainerPortsLoop_Exposed(services, i + 1, ports \o items)

RECURSIVE ContainerPortsLoop(_, _, _)
\* the for loop of container_ports from the i-th service on, ports so far
ContainerPortsLoop(services, i, ports) ==
    IF i > Len(services) THEN ports
    ELSE LET items == ContainerPortsOf(services[i].ports)
         IN  ContainerPortsLoop(services, i + 1, ports \o items)

\* ActorSpec::container_ports leaving out the ports that are not exposed
ActorSpec_container_ports_Exposed(s) ==
    IF ~is_some(s.services) THEN None
    ELSE Some(ContainerPortsLoop_Exposed(unwrap(s.services), 1, <<>>))

\* ActorSpec::container_ports
ActorSpec_container_ports(s) ==
    IF ~is_some(s.services) THEN None
    ELSE Some(ContainerPortsLoop(unwrap(s.services), 1, <<>>))

RECURSIVE ServicePortsLoop(_, _, _)
\* the for loop of service_ports from the i-th service on, ports so far
ServicePortsLoop(services, i, ports) ==
    IF i > Len(services) THEN ports
    ELSE LET items == ServicePortsOf(SelectSeq(services[i].ports, IsExposed))
         IN  ServicePortsLoop(services, i + 1, ports \o items)

\* ActorSpec::service_ports
ActorSpec_service_ports(s) ==
    IF ~is_some(s.services) THEN None
    ELSE LET ports == ServicePortsLoop(unwrap(s.services), 1, <<>>)
         IN  IF ports = <<>> THEN None ELSE Some(ports)

\* ActorSpec::has_dockerfile giving way to a builder
ActorSpec_has_dockerfile_NoBuilder(s) ==
    /\ is_some(s.build)
    /\ is_some(unwrap(s.build).dockerfile)
    /\ ~is_some(unwrap(s.build).builder)

\* ActorSpec::has_dockerfile
ActorSpec_has_dockerfile(s) ==
    is_some(s.build) /\ is_some(unwrap(s.build).dockerfile)

(***************************************************************************)
(* Bounds and inputs                                                       *)
(***************************************************************************)
MaxAppends == 4    \* conditions appended to a status in AppendSpec

MaxWrites == 3     \* writes to a status in Spec

MaxDeser == 2      \* conditions of a deserialized status

MaxServices == 2   \* services of an ActorSpec

\* messages given to running() and failed()
Messages == { None, Some("timeout") }

\* every Condition the four constructors can return at time t
Constructed(t) ==
    {ActorState_pending(t), ActorState_building(t)}
        \cup {ActorState_running(b, r, m, t) : b \in BOOLEAN, r \in Reasons, m \in Messages}
        \cup {ActorState_failed(b, r, m, t) : b \in BOOLEAN, r \in Reasons, m \in Messages}

\* all sequences over S of length at most n
SeqsUpTo(S, n) == UNION {[1..k -> S] : k \in 0..n}

\* type and status strings a stored status document can hold besides the
\* ones the constructors write
DeserTypes ==
    {ActorState_to_string(s) : s \in ActorStates}
        \cup { <<"R","e","a","d","y">>, <<"r","u","n","n","i","n","g">> }

DeserStatuses ==
    { <<"T","r","u","e">>, <<"F","a","l","s","e">>,
      <<"t","r","u","e">>, <<"U","n","k","n","o","w","n">> }

\* #[derive(Deserialize)] struct ActorStatus: any list of well-typed conditions
DeserConditions ==
    [ type_ : DeserTypes, status : DeserStatuses, last_transition_time : {0},
      reason : { <<"S","y","n","c","e","d">> }, observed_generation : {None},
      message : {""} ]

\* Port values
P80 == [port |-> 80, protocol |-> None, expose |-> None]

P8080 == [port |-> 8080, protocol |-> Some("TCP"), expose |-> Some(TRUE)]

P9090 == [port |-> 9090, protocol |-> Some("UDP"), expose |-> Some(FALSE)]

P443 == [port |-> 443, protocol |-> None, expose |-> Some(TRUE)]

\* Service values
ServiceSamples ==
    { [kind |-> None,        ports |-> <<>>],
      [kind |-> None,        ports |-> <<P80>>],
      [kind |-> Some("web"), ports |-> <<P8080>>],
      [kind |-> None,        ports |-> <<P9090, P443>>],
      [kind |-> Some("web"), ports |-> <<P8080, P9090, P8080>>] }

\* Build values
BuildSamples ==
    [ context    : {None, Some("app")},
      env        : {None, Some([k \in {"GOFLAGS"} |-> "-mod=vendor"])},
      dockerfile : {None, Some("Dockerfile")},
      builder    : {None, Some("paketobuildpacks/builder:base")},
      buildpacks : {None, Some(<<"paketo-buildpacks/go">>)} ]

\* environments values
EnvSamples ==
    { None,
      Some([k \in {} |-> ""]),
      Some([k \in {"A"} |-> "1"]),
      Some([k \in {"A", "B"} |-> IF k = "A" THEN "1" ELSE "2"]) }

\* struct ActorSpec, the fields its derivations read
ActorSpecs ==
    [ environments : EnvSamples,
      services     : {None} \cup {Some(ss) : ss \in SeqsUpTo(ServiceSamples, MaxServices)},
      build        : {None} \cup {Some(b) : b \in BuildSamples} ]

\* ActorSpec::default()
DefaultSpec == [environments |-> None, services |-> None, build |-> None]

NoCall == [op |-> "none"]

(***************************************************************************)
(* Writes to the condition list                                            *)
(***************************************************************************)
\* every condition of c's type replaced by c, or c appended when there is none
Upsert(conds, c) ==
    IF \E i \in 1..Len(conds) : conds[i].type_ = c.type_
    THEN [i \in 1..Len(conds) |-> IF conds[i].type_ = c.type_ THEN c ELSE conds[i]]
    ELSE Append(conds, c)

\* the conditions of type ty removed
Without(conds, ty) == SelectSeq(conds, LAMBDA x : x.type_ # ty)

\* a condition is constructed now and appended
Add(c) ==
    /\ conditions' = Append(conditions, c)
    /\ now' = now + 1
    /\ UNCHANGED <<spec, out>>

\* a condition is constructed now and replaces the ones of its type
Replace(c) ==
    /\ conditions' = Upsert(conditions, c)
    /\ now' = now + 1
    /\ UNCHANGED <<spec, out>>

\* the conditions of phase s are removed
Remove(s) ==
    /\ conditions' = Without(conditions, ActorState_to_string(s))
    /\ now' = now + 1
    /\ UNCHANGED <<spec, out>>

(***************************************************************************)
(* Calls                                                                   *)
(***************************************************************************)
Returned(op, val) == out' = [op |-> op, val |-> val]

CallPending ==
    /\ Returned("pending", ActorStatus_pending(conditions))
    /\ UNCHANGED <<spec, conditions, now>>

CallBuilding ==
    /\ Returned("building", ActorStatus_building(conditions))
    /\ UNCHANGED <<spec, conditions, now>>

CallRunning ==
    /\ Returned("running", ActorStatus_running(conditions))
    /\ UNCHANGED <<spec, conditions, now>>

CallFailed ==
    /\ Returned("failed", ActorStatus_failed(conditions))
    /\ UNCHANGED <<spec, conditions, now>>

CallEnvironments ==
    /\ \E order \in KeyOrders(IF is_some(spec.environments)
                              THEN DOMAIN unwrap(spec.environments) ELSE {}) :
           Returned("environments", ActorSpec_environments(spec, order))
    /\ UNCHANGED <<spec, conditions, now>>

CallContainerPorts ==
    /\ Returned("container_ports", ActorSpec_container_ports(spec))
    /\ UNCHANGED <<spec, conditions, now>>

CallServicePorts ==
    /\ Returned("service_ports", ActorSpec_service_ports(spec))
    /\ UNCHANGED <<spec, conditions, now>>

CallHasDockerfile ==
    /\ Returned("has_dockerfile", ActorSpec_has_dockerfile(spec))
    /\ UNCHANGED <<spec, conditions, now>>

(***************************************************************************)
(* Specifications                                                          *)
(***************************************************************************)
\* a fresh resource: no condition yet
Init ==
    /\ spec = DefaultSpec
    /\ conditions = <<>>
    /\ now = 0
    /\ out = NoCall

Write ==
    /\ now < MaxWrites
    /\ \/ \E c \in Constructed(now) : Add(c)
       \/ \E c \in Constructed(now) : Replace(c)
       \/ \E s \in ActorStates : Remove(s)

Read == CallPending \/ CallBuilding \/ CallRunning \/ CallFailed

Next == Write \/ Read

\* a status written by appends, replacements and removals, and queried
Spec == Init /\ [][Next]_vars

AppendNext == now < MaxAppends /\ \E c \in Constructed(now) : Add(c)

\* a status written by appends only
AppendSpec == Init /\ [][AppendNext]_vars

DeserInit ==
    /\ spec = DefaultSpec
    /\ conditions \in SeqsUpTo(DeserConditions, MaxDeser)
    /\ now = 0
    /\ out = NoCall

\* a status read from a stored document, and queried
DeserSpec == DeserInit /\ [][Read]_vars

DeriveInit ==
    /\ spec \in ActorSpecs
    /\ conditions = <<>>
    /\ now = 0
    /\ out = NoCall

DeriveNext ==
    CallEnvironments \/ CallContainerPorts \/ CallServicePorts \/ CallHasDockerfile

\* an ActorSpec read from a document, and its derivations called
DeriveSpec == DeriveInit /\ [][DeriveNext]_vars

(***************************************************************************)
(* Properties                                                              *)
(***************************************************************************)
\* the strings the documentation names, written out
TrueString == <<"T","r","u","e">>

FalseString == <<"F","a","l","s","e">>

PhaseName(s) ==
    CASE s = "Pending"  -> <<"P","e","n","d","i","n","g">>
      [] s = "Building" -> <<"B","u","i","l","d","i","n","g">>
      [] s = "Running"  -> <<"R","u","n","n","i","n","g">>
      [] s = "Failed"   -> <<"F","a","i","l","e","d">>

\* the conditions the constructor of phase s returns at time t when given
\* status b (pending() and building() take no status and mean true)
Built(s, b, t) ==
    CASE s = "Pending"  -> IF b THEN {ActorState_pending(t)} ELSE {}
      [] s = "Building" -> IF b THEN {ActorState_building(t)} ELSE {}
      [] s = "Running"  -> {ActorState_running(b, r, m, t) : r \in Reasons, m \in Messages}
      [] s = "Failed"   -> {ActorState_failed(b, r, m, t) : r \in Reasons, m \in Messages}

Last(xs) == xs[Len(xs)]

\* C1: each phase query answers false on a status with no condition, and
\* answers true in the state right after the condition its phase's
\* constructor builds with status = true is appended, whatever the list held.
C1_QueryAfterAppend ==
    [][\A s \in ActorStates :
          /\ conditions = <<>> => ~Query(conditions, s)
          /\ \A c \in Built(s, TRUE, now) :
                conditions' = Append(conditions, c) => Query(conditions', s)]_vars

\* a Running condition with status true was appended to a list that already
\* held a Failed condition, and running() answered true
C1_Witness ==
    /\ Len(conditions) >= 2
    /\ conditions[1].type_ = PhaseName("Failed")
    /\ Last(conditions) \in Built("Running", TRUE, Last(conditions).last_transition_time)
    /\ out = [op |-> "running", val |-> TRUE]

\* C2 as stated: after the condition built by running(false, ..) is appended,
\* running() answers false, whatever was appended before.
C2_Original ==
    [][\A c \in Built("Running", FALSE, now) :
          conditions' = Append(conditions, c) => ~ActorStatus_running(conditions')]_vars

\* C2 amended: appending the condition built by running(false, ..) leaves the
\* answer of running() as it was: false when the list held no Running
\* condition with status "True", still true when it held one.
C2_AppendFalseKeepsAnswer ==
    [][\A c \in Built("Running", FALSE, now) :
          conditions' = Append(conditions, c) =>
              (ActorStatus_running(conditions') <=> ActorStatus_running(conditions))]_vars

\* running(false, ..) was appended after other conditions, none of them a
\* Running condition with status "True", and running() is false
C2_Witness ==
    /\ Len(conditions) >= 2
    /\ Last(conditions) \in Built("Running", FALSE, Last(conditions).last_transition_time)
    /\ ~ActorStatus_running(conditions)
    /\ ActorStatus_pending(conditions)

\* C3: the query of a phase answers true exactly when some condition has the
\* phase's name as its type and the string "True" as its status.
C3_QueryIffTrueCondition ==
    \A s \in ActorStates :
        LET asserted == \E i \in 1..Len(conditions) :
                            /\ conditions[i].type_ = PhaseName(s)
                            /\ conditions[i].status = TrueString
        IN  /\ Query(conditions, s) <=> asserted
            /\ (s = "Pending"  /\ out.op = "pending")  => out.val = asserted
            /\ (s = "Building" /\ out.op = "building") => out.val = asserted
            /\ (s = "Running"  /\ out.op = "running")  => out.val = asserted
            /\ (s = "Failed"   /\ out.op = "failed")   => out.val = asserted

\* running() answered false on a list holding a Running condition whose status
\* is not "True" and a condition of another type whose status is "True"
C3_Witness ==
    /\ out = [op |-> "running", val |-> FALSE]
    /\ \E i, j \in 1..Len(conditions) :
          /\ conditions[i].type_ = PhaseName("Running")
          /\ conditions[i].status = <<"t","r","u","e">>
          /\ conditions[j].type_ # PhaseName("Running")
          /\ conditions[j].status = TrueString

\* the places <<i, j>> of the ports of a service list: port j of service i
Places(services) ==
    UNION {{<<i, j>> : j \in 1..Len(services[i].ports)} : i \in 1..Len(services)}

PortAt(services, a) == services[a[1]].ports[a[2]]

\* place a comes before place b: an earlier service, or the same service and
\* an earlier port
Before(a, b) == a[1] < b[1] \/ (a[1] = b[1] /\ a[2] < b[2])

\* the position of place a among the places S, in that order
Rank(S, a) == Cardinality({b \in S : Before(b, a)}) + 1

ServicesOf(s) == IF s.services = None THEN <<>> ELSE s.services[1]

\* C4: service_ports() returns exactly the ports whose expose is true (unset
\* counts as false), in the order of the services and of the ports in each,
\* each with the port's number and protocol; and returns None, never an empty
\* list, when no port is exposed.
C4_ServicePortsExposedInOrder ==
    out.op = "service_ports" =>
        LET services == ServicesOf(spec)
            exposed  == {a \in Places(services) : PortAt(services, a).expose = Some(TRUE)}
        IN  IF exposed = {} THEN out.val = None
            ELSE /\ out.val # None
                 /\ Len(out.val[1]) = Cardinality(exposed)
                 /\ \A a \in exposed :
                       /\ out.val[1][Rank(exposed, a)].port = PortAt(services, a).port
                       /\ out.val[1][Rank(exposed, a)].protocol = PortAt(services, a).protocol

\* service_ports() returned [443, 8080, 8080] for two services whose ports
\* are 9090 (expose false), 443 and 8080, 9090 (expose false), 8080
C4_Witness ==
    /\ out.op = "service_ports"
    /\ spec.services # None
    /\ Len(spec.services[1]) = 2
    /\ spec.services[1][1].ports = <<P9090, P443>>
    /\ spec.services[1][2].ports = <<P8080, P9090, P8080>>
    /\ out.val # None
    /\ Len(out.val[1]) = 3
    /\ out.val[1][1].port = 443

\* C5: with services present, container_ports() returns one entry for every
\* port of every service, exposed or not, in the order of the services and of
\* the ports in each, each with the port's number and protocol.
C5_ContainerPortsAllInOrder ==
    (out.op = "container_ports" /\ spec.services # None) =>
        LET services == ServicesOf(spec)
            all      == Places(services)
        IN  /\ out.val # None
            /\ Len(out.val[1]) = Cardinality(all)
            /\ \A a \in all :
                  /\ out.val[1][Rank(all, a)].container_port = PortAt(services, a).port
                  /\ out.val[1][Rank(all, a)].protocol = PortAt(services, a).protocol

\* container_ports() returned four entries, the second of them the port 9090
\* that is not exposed, for the services [80] and [8080, 9090, 8080]
C5_Witness ==
    /\ out.op = "container_ports"
    /\ spec.services # None
    /\ Len(spec.services[1]) = 2
    /\ spec.services[1][1].ports = <<P80>>
    /\ spec.services[1][2].ports = <<P8080, P9090, P8080>>
    /\ Len(out.val[1]) = 4
    /\ out.val[1][3].container_port = 9090

\* C6: has_dockerfile() is true exactly when build is present and its
\* dockerfile is present, whatever builder, buildpacks, context and env are.
C6_HasDockerfileIffPresent ==
    out.op = "has_dockerfile" =>
        /\ out.val = (spec.build # None /\ spec.build[1].dockerfile # None)
        /\ spec.build # None =>
              \A b \in BuildSamples :
                  b.dockerfile = spec.build[1].dockerfile =>
                      ActorSpec_has_dockerfile([spec EXCEPT !.build = Some(b)]) = out.val

\* has_dockerfile() answered true for a build with a dockerfile and a builder
C6_Witness ==
    /\ out = [op |-> "has_dockerfile", val |-> TRUE]
    /\ spec.build # None
    /\ spec.build[1].dockerfile # None
    /\ spec.build[1].builder # None
    /\ spec.build[1].buildpacks # None

\* the condition the documentation describes for phase s, status b, message m
ShapedAs(c, s, b, m) ==
    /\ c.type_ = PhaseName(s)
    /\ c.status = IF b THEN TrueString ELSE FalseString
    /\ c.message = IF m = None THEN "" ELSE m[1]
    /\ c.observed_generation = None

\* C7: every condition a constructor returns has its phase's name as type,
\* "True" or "False" as the boolean says, the message given or "", and no
\* observed_generation; so a list written from constructor outputs holds only
\* the four types and the two status strings.
C7_ConstructedShape ==
    [][/\ \A c \in {ActorState_pending(now)} :
             conditions' = Append(conditions, c) => ShapedAs(Last(conditions'), "Pending", TRUE, None)
       /\ \A c \in {ActorState_building(now)} :
             conditions' = Append(conditions, c) => ShapedAs(Last(conditions'), "Building", TRUE, None)
       /\ \A b \in BOOLEAN, r \in Reasons, m \in Messages :
             /\ conditions' = Append(conditions, ActorState_running(b, r, m, now))
                   => ShapedAs(Last(conditions'), "Running", b, m)
             /\ conditions' = Append(conditions, ActorState_failed(b, r, m, now))
                   => ShapedAs(Last(conditions'), "Failed", b, m)
       /\ \A i \in 1..Len(conditions') :
             /\ conditions'[i].type_ \in {PhaseName(s) : s \in ActorStates}
             /\ conditions'[i].status \in {TrueString, FalseString}]_vars

\* a list holding the output of running(false, .., Some("timeout")) and of
\* failed(true, .., None)
C7_Witness ==
    \E i, j \in 1..Len(conditions) :
        /\ ShapedAs(conditions[i], "Running", FALSE, Some("timeout"))
        /\ ShapedAs(conditions[j], "Failed", TRUE, None)

\* C8: a derivation whose optional input is missing returns None: both port
\* lists without services, and environments() without environments, which
\* does not return an empty list.
C8_AbsentInputAbsentResult ==
    /\ (out.op \in {"container_ports", "service_ports"} /\ spec.services = None)
          => out.val = None
    /\ (out.op = "environments" /\ spec.environments = None) => out.val = None
    /\ out.op \in {"container_ports", "service_ports", "environments"}
          => (out.val = None \/ Len(out.val) = 1)

\* environments() returned None for a spec with neither environments nor
\* services
C8_Witness ==
    /\ out = [op |-> "environments", val |-> None]
    /\ spec.environments = None
    /\ spec.services = None

\* the list went Pending, Building, Running: the three constructors' outputs
\* with status true were appended in this order
WentPendingBuildingRunning(conds) ==
    \E i, j, k \in 1..Len(conds) :
        /\ i < j /\ j < k
        /\ conds[i] \in Built("Pending", TRUE, conds[i].last_transition_time)
        /\ conds[j] \in Built("Building", TRUE, conds[j].last_transition_time)
        /\ conds[k] \in Built("Running", TRUE, conds[k].last_transition_time)

\* C9: under appends a phase query that answered true answers true from then
\* on, also after a condition of its type with status false is appended; and
\* a status that went Pending, Building, Running asserts all three at once.
C9_AppendMonotone ==
    [][/\ \A s \in ActorStates : Query(conditions, s) => Query(conditions', s)
       /\ WentPendingBuildingRunning(conditions') =>
             /\ ActorStatus_pending(conditions')
             /\ ActorStatus_building(conditions')
             /\ ActorStatus_running(conditions')]_vars

\* Pending, Building, Running and then running(false, ..) were appended, and
\* the three phases are still asserted
C9_Witness ==
    /\ Len(conditions) = 4
    /\ WentPendingBuildingRunning(SubSeq(conditions, 1, 3))
    /\ conditions[4] \in Built("Running", FALSE, 3)
    /\ ActorStatus_pending(conditions)
    /\ ActorStatus_building(conditions)
    /\ ActorStatus_running(conditions)

\* the step writes a condition of phase ty: appends or replaces by a
\* constructor's output of that type, or removes the conditions of that type
WritesType(ty) ==
    \/ \E c \in Constructed(now) :
          /\ c.type_ = PhaseName(ty)
          /\ conditions' \in {Append(conditions, c), Upsert(conditions, c)}
    \/ conditions' = Without(conditions, PhaseName(ty))

\* C10: adding, replacing or removing a condition of one type leaves the
\* answer of the query of every other phase as it was, and a query leaves
\* the condition list as it was.
C10_Frame ==
    [][/\ \A s \in ActorStates :
             \/ Query(conditions', s) = Query(conditions, s)
             \/ \A ty \in ActorStates \ {s} : ~WritesType(ty)
       /\ out' # out => conditions' = conditions]_vars

\* after three writes the list holds only the Running condition written
\* first: the two later writes were of other types, and running() answers true
C10_Witness ==
    /\ now = 3
    /\ Len(conditions) = 1
    /\ conditions[1] \in Built("Running", TRUE, 0)
    /\ out = [op |-> "running", val |-> TRUE]
====
